---- MODULE Spec2Model ----
(***************************************************************************)
(* Model of the auth service of yoshapihoff/bricks: the JWT session-token  *)
(* service (internal/auth/jwt.go), the user service and its repository,    *)
(* the password-reset-token service and its repository, and the registry   *)
(* of OAuth providers (internal/auth/oauth).                               *)
(*                                                                         *)
(* Time is counted in ticks, TicksPerSecond of them to a second, so that   *)
(* the truncation of JWT NumericDate values to whole seconds is visible.   *)
(***************************************************************************)
EXTENDS Integers, Sequences, FiniteSets, TLC

VARIABLES
    impl,         \* which user service is wired in: UserService or DefaultUserService
    now,          \* the wall clock (time.Now()), in ticks
    issued,       \* the session token last handed out by GenerateToken, with its inputs
    users,        \* rows of the users table
    nextID,       \* number of user ids drawn from uuid.New() so far
    reg,          \* per request: the position of an in-flight Register call
    resetTokens,  \* rows of the password_reset_tokens table
    nextTok,      \* number of reset-token ids drawn from uuid.New() so far
    ret,          \* the last completed call: operation, arguments, result, time
    cfg,          \* the oauth.Config that NewService was called with
    providers,    \* Service.providers: the adapter registered under each name
    trace,        \* what the last call of the OAuth service did beside its look-up
    ctx,          \* the context of the caller of an adapter: live or done
    call          \* the adapter call in flight: its position and what it has received

oauthVars == <<cfg, providers, trace, ctx, call>>

vars ==
    <<impl, now, issued, users, nextID, reg, resetTokens, nextTok, ret,
      cfg, providers, trace, ctx, call>>

----------------------------------------------------------------------------
(* Bounds of the model *)

MaxTime == 7
MaxDrift == 1

(* Program constants *)

TicksPerSecond == 2

----------------------------------------------------------------------------
(* Values *)

UserIDs == {1, 2}
Emails == {"alice@example.com", "bob@example.com"}

\* JWTConfig: the signing secret and the token lifetime of this deployment
ConfigSecret == "secret-A"
ConfigExpiration == 3

Secrets == {ConfigSecret, "secret-B"}
HMACAlgs == {"HS256", "HS384"}
Algs == HMACAlgs \cup {"RS256", "none", "unknown"}

\* no adapter call is in flight
NoAdapterCall == [pc |-> "idle"]

NoCall == [op |-> "none", err |-> "nil", arg |-> <<>>, val |-> <<>>, at |-> 0]
NoClaims == <<>>

----------------------------------------------------------------------------
(* oauth.NewService: the registry of provider adapters built from a Config *)

KnownProviders == {"google", "github", "vk"}

\* the redirect URL format of the deployment (OAUTH_REDIRECT_URL)
RedirectURL == "https://auth.example.com/oauth/%s/callback"

\* fmt.Sprintf(cfg.RedirectURL, name)
Sprintf(format, name) == [format |-> format, arg |-> name]

\* a Config with no credentials at all, and the Configs studied: every
\* provider has its client ID and its client secret each empty or set
UnsetConfig == [n \in KnownProviders |-> [ClientID |-> "", ClientSecret |-> ""]]
Configs ==
    [KnownProviders -> [ClientID : {"", "client-id"}, ClientSecret : {"", "client-secret"}]]

\* providers.NewGoogleProvider / NewGitHubProvider / NewVKProvider
NewProvider(name, clientID, clientSecret, redirectURL) ==
    [name |-> name, ClientID |-> clientID, ClientSecret |-> clientSecret,
     RedirectURL |-> redirectURL]

\* a variant that registers every known provider, configured or not
NewServiceOfAll(c) ==
    [n \in KnownProviders |->
        NewProvider(n, c[n].ClientID, c[n].ClientSecret, Sprintf(RedirectURL, n))]

\* NewService(cfg): the providers map
NewService(c) ==
    [n \in {k \in KnownProviders : c[k].ClientID # "" /\ c[k].ClientSecret # ""} |->
        NewProvider(n, c[n].ClientID, c[n].ClientSecret, Sprintf(RedirectURL, n))]

----------------------------------------------------------------------------
(* jwt.NewNumericDate: t.Truncate(jwt.TimePrecision), TimePrecision = 1s *)

NewNumericDate(t) == t - (t % TicksPerSecond)

(* The MAC of a token covers its header and its claims. *)
SigningInput(alg, claims) == [alg |-> alg, claims |-> claims]

SignedString(alg, claims, key) ==
    [wellFormed |-> TRUE,
     alg |-> alg,
     claims |-> claims,
     sig |-> [alg |-> alg, key |-> key, over |-> SigningInput(alg, claims)]]

(* GenerateToken reads the clock three times: t1 for ExpiresAt, t2 for     *)
(* IssuedAt, t3 for NotBefore.                                             *)
MakeClaims(userID, email, t1, t2, t3) ==
    [uid |-> userID,
     email |-> email,
     exp |-> NewNumericDate(t1 + ConfigExpiration),
     iat |-> NewNumericDate(t2),
     nbf |-> NewNumericDate(t3),
     iss |-> "auth-service"]

----------------------------------------------------------------------------
(* ValidateToken: jwt.ParseWithClaims (golang-jwt v5.0.0) with the keyFunc *)
(* of the service, then the mapping of its error.                          *)

\* the keyFunc accepts exactly the tokens whose method is *SigningMethodHMAC
KeyFuncOKBroken(tok) == tok.alg \notin HMACAlgs
KeyFuncOK(tok) == tok.alg \in HMACAlgs

\* SigningMethodHMAC.Verify with the service's secret
VerifySignatureNoKey(tok) ==
    /\ tok.sig.alg = tok.alg
    /\ tok.sig.over = SigningInput(tok.alg, tok.claims)
VerifySignature(tok) ==
    /\ tok.sig.alg = tok.alg
    /\ tok.sig.key = ConfigSecret
    /\ tok.sig.over = SigningInput(tok.alg, tok.claims)

\* Validator.verifyExpiresAt: now.Before(exp)
ExpiresAtOKLate(claims, t) == t < claims.exp + TicksPerSecond
ExpiresAtOKInclusive(claims, t) == t <= claims.exp
ExpiresAtOK(claims, t) == t < claims.exp

\* Validator.verifyNotBefore: !now.Before(nbf)
NotBeforeOKStrict(claims, t) == t > claims.nbf
NotBeforeOK(claims, t) == t >= claims.nbf

\* The error of jwt.ParseWithClaims, "nil" when the token is valid.  The
\* signature is verified before the claims are validated; the validator
\* joins the errors of all failed claim checks.
ParseWithClaims(tok, t) ==
    IF ~tok.wellFormed THEN {"ErrTokenMalformed"}
    ELSE IF tok.alg \notin (Algs \ {"unknown"}) THEN {"ErrTokenUnverifiable"}
    ELSE IF ~KeyFuncOK(tok) THEN {"ErrTokenUnverifiable"}
    ELSE IF ~VerifySignature(tok) THEN {"ErrTokenSignatureInvalid"}
    ELSE LET errs == (IF ExpiresAtOK(tok.claims, t) THEN {} ELSE {"ErrTokenExpired"})
                     \cup (IF NotBeforeOK(tok.claims, t) THEN {} ELSE {"ErrTokenNotValidYet"})
         IN  IF errs = {} THEN {} ELSE errs \cup {"ErrTokenInvalidClaims"}

\* DefaultJWTService.ValidateToken: the pair <<error, claims>>
ValidateTokenResult(tok, t) ==
    LET errs == ParseWithClaims(tok, t)
    IN  IF errs # {}
        THEN IF "ErrTokenExpired" \in errs
             THEN [err |-> "ErrExpiredToken", claims |-> NoClaims]
             ELSE [err |-> "ErrInvalidToken", claims |-> NoClaims]
        ELSE [err |-> "nil", claims |-> tok.claims]

----------------------------------------------------------------------------
(* The token strings a caller can present: the tokens handed out, tokens   *)
(* whose header was altered, whose claims were altered, tokens signed anew *)
(* with some secret, and strings that are no token at all.                 *)

AlterAlg(tok, a) == [tok EXCEPT !.alg = a]
AlterExp(tok, d) == [tok EXCEPT !.claims.exp = @ + d]
Resign(tok, a, key) == SignedString(a, tok.claims, key)
Garble(tok) == [tok EXCEPT !.wellFormed = FALSE]

Presentable(tok) ==
    {tok, Garble(tok), AlterExp(tok, 2 * TicksPerSecond)}
    \cup {AlterAlg(tok, a) : a \in Algs}
    \cup {Resign(tok, a, k) : a \in HMACAlgs, k \in Secrets}
    \cup {Resign([tok EXCEPT !.claims.nbf = @ + 2 * TicksPerSecond], "HS256", k) : k \in Secrets}

----------------------------------------------------------------------------
(* Actions of the JWT service *)

Tick ==
    /\ now < MaxTime
    /\ now' = now + 1
    /\ UNCHANGED <<oauthVars, impl, issued, users, nextID, reg, resetTokens, nextTok, ret>>

GenerateToken(userID, email) ==
    /\ \E d1, d2 \in 0..MaxDrift :
         LET t1 == now
             t2 == now + d1
             t3 == now + d1 + d2
             tok == SignedString("HS256", MakeClaims(userID, email, t1, t2, t3), ConfigSecret)
         IN  /\ t3 <= MaxTime
             /\ now' = t3
             /\ issued' = {[token |-> tok, userID |-> userID, email |-> email,
                              start |-> t1, end |-> t3]}
             /\ ret' = [op |-> "GenerateToken", err |-> "nil",
                        arg |-> <<userID, email>>, val |-> tok, at |-> t3]
    /\ UNCHANGED <<oauthVars, impl, users, nextID, reg, resetTokens, nextTok>>

ValidateToken(tok) ==
    /\ LET r == ValidateTokenResult(tok, now)
       IN  /\ ret' = [op |-> "ValidateToken", err |-> r.err,
                      arg |-> tok, val |-> r.claims, at |-> now]
    /\ UNCHANGED <<oauthVars, impl, now, issued, users, nextID, reg, resetTokens, nextTok>>

InitJWT ==
    /\ impl = "UserService"
    /\ now \in 0..1
    /\ issued = {}
    /\ users = {}
    /\ nextID = 0
    /\ reg = <<>>
    /\ resetTokens = {}
    /\ nextTok = 0
    /\ ret = NoCall
    /\ cfg = UnsetConfig
    /\ providers = NewService(UnsetConfig)
    /\ trace = <<>>
    /\ ctx = "live"
    /\ call = NoAdapterCall

NextJWT ==
    \/ Tick
    \/ \E u \in UserIDs, e \in Emails : GenerateToken(u, e)
    \/ \E i \in issued : \E tok \in Presentable(i.token) : ValidateToken(tok)

SpecJWT == InitJWT /\ [][NextJWT]_vars

----------------------------------------------------------------------------
(* The user service (UserService and DefaultUserService) over the users    *)
(* table.  Passwords are at most 72 bytes long, the length bcrypt hashes.  *)

MaxUsers == 2
MinPasswordLen == 8

Impls == {"UserService", "DefaultUserService"}
Procs == {1, 2}

InvalidEmails == {"not-an-email"}
AnyEmails == Emails \cup InvalidEmails
Passwords == {"short", "password123", "hunter2hunter2"}

\* mail.ParseAddress succeeds
ParseAddressOKAlways(email) == TRUE
ParseAddressOK(email) == email \notin InvalidEmails

\* bcrypt.GenerateFromPassword: a one-way hash (the salt is left out)
GenerateFromPasswordOfNothing(password) == [bcrypt |-> ""]
GenerateFromPassword(password) == [bcrypt |-> password]

\* bcrypt.CompareHashAndPassword returns nil
CompareHashAndPasswordOfAny(hash, password) == TRUE
CompareHashAndPassword(hash, password) == hash.bcrypt = password

Idle == [pc |-> "idle", email |-> "", password |-> ""]

----------------------------------------------------------------------------
(* userRepository / DefaultUserRepository *)

\* SELECT ... FROM users WHERE email = $1: the rows found
FindByEmailNone(email) == {}
FindByEmail(email) == {u \in users : u.email = email}

\* SELECT ... FROM users WHERE id = $1: the rows found
FindByID(id) == {u \in users : u.id = id}

\* the UNIQUE constraint on users.email admits a row with this email for
\* the user with this id
EmailUniqueUnchecked(id, email) == TRUE
EmailUnique(id, email) == \A u \in users : u.email = email => u.id = id

\* the errors of the two services where they differ
ErrLoginNoUser ==
    IF impl = "UserService" THEN "service.ErrInvalidCredentials" ELSE "service.ErrInvalidEmail"
ErrLoginBadPassword ==
    IF impl = "UserService" THEN "service.ErrInvalidCredentials" ELSE "service.ErrInvalidPassword"
ErrUpdateNoUser ==
    IF impl = "UserService" THEN "service.ErrInvalidCredentials" ELSE "service.ErrUserNotFound"

ReturnsAt(op, arg, err, val, t) ==
    ret' = [op |-> op, err |-> err, arg |-> arg, val |-> val, at |-> t]

Returns(op, arg, err, val) == ReturnsAt(op, arg, err, val, now)

----------------------------------------------------------------------------
(* Register, in two steps: the checks and the look-up by email, then the   *)
(* hashing and the insert.  Other requests run between the two.            *)

RegisterLookup(p, email, password) ==
    /\ reg[p].pc = "idle"
    /\ UNCHANGED <<oauthVars, impl, now, issued, users, nextID, resetTokens, nextTok>>
    /\ IF Len(password) < MinPasswordLen
       THEN /\ Returns("Register", <<email, password>>, "service.ErrWeakPassword", <<>>)
            /\ UNCHANGED reg
       ELSE IF ~ParseAddressOK(email)
       THEN /\ Returns("Register", <<email, password>>, "service.ErrInvalidEmail", <<>>)
            /\ UNCHANGED reg
       ELSE IF FindByEmail(email) # {}
       THEN /\ Returns("Register", <<email, password>>, "service.ErrEmailExists", <<>>)
            /\ UNCHANGED reg
       ELSE /\ reg' = [reg EXCEPT ![p] = [pc |-> "create", email |-> email, password |-> password]]
            /\ UNCHANGED ret

RegisterCreate(p) ==
    /\ reg[p].pc = "create"
    /\ nextID < MaxUsers
    /\ LET user == [id |-> nextID + 1,
                    email |-> reg[p].email,
                    hash |-> GenerateFromPassword(reg[p].password)]
           arg == <<reg[p].email, reg[p].password>>
       IN  /\ nextID' = nextID + 1
           /\ IF EmailUnique(user.id, user.email)
              THEN /\ users' = users \cup {user}
                   /\ Returns("Register", arg, "nil", user)
              ELSE /\ users' = users
                   /\ Returns("Register", arg, "pq.unique_violation", <<>>)
    /\ reg' = [reg EXCEPT ![p] = Idle]
    /\ UNCHANGED <<oauthVars, impl, now, issued, resetTokens, nextTok>>

----------------------------------------------------------------------------
(* Login *)

Login(email, password) ==
    LET found == FindByEmail(email)
        arg == <<email, password>>
    IN  /\ UNCHANGED <<oauthVars, impl, issued, users, nextID, reg, resetTokens, nextTok>>
        /\ IF found = {}
           THEN /\ now' = now
                /\ Returns("Login", arg, ErrLoginNoUser, <<>>)
           ELSE \E user \in found :
                  IF ~CompareHashAndPassword(user.hash, password)
                  THEN /\ now' = now
                       /\ Returns("Login", arg, ErrLoginBadPassword, <<>>)
                  ELSE \E d1, d2 \in 0..MaxDrift :
                         LET t3 == now + d1 + d2
                         IN  /\ t3 <= MaxTime
                             /\ now' = t3
                             /\ ReturnsAt("Login", arg, "nil",
                                    SignedString("HS256",
                                        MakeClaims(user.id, user.email, now, now + d1, t3),
                                        ConfigSecret), t3)

----------------------------------------------------------------------------
(* UpdateEmail, UpdatePassword and the repository's Delete *)

UpdateEmail(userID, email) ==
    LET arg == <<userID, email>>
    IN  /\ UNCHANGED <<oauthVars, impl, now, issued, nextID, reg, resetTokens, nextTok>>
        /\ IF ~ParseAddressOK(email)
           THEN /\ users' = users
                /\ Returns("UpdateEmail", arg, "service.ErrInvalidEmail", <<>>)
           ELSE IF FindByID(userID) = {}
           THEN /\ users' = users
                /\ Returns("UpdateEmail", arg, "service.ErrUserNotFound", <<>>)
           ELSE IF ~EmailUnique(userID, email)
           THEN /\ users' = users
                /\ Returns("UpdateEmail", arg, "pq.unique_violation", <<>>)
           ELSE /\ users' = {IF u.id = userID THEN [u EXCEPT !.email = email] ELSE u : u \in users}
                /\ Returns("UpdateEmail", arg, "nil", <<>>)

UpdatePassword(userID, oldPassword, newPassword) ==
    LET found == FindByID(userID)
        arg == <<userID, oldPassword, newPassword>>
    IN  /\ UNCHANGED <<oauthVars, impl, now, issued, nextID, reg, resetTokens, nextTok>>
        /\ IF found = {}
           THEN /\ users' = users
                /\ Returns("UpdatePassword", arg, ErrUpdateNoUser, <<>>)
           ELSE \E user \in found :
                  IF ~CompareHashAndPassword(user.hash, oldPassword)
                  THEN /\ users' = users
                       /\ Returns("UpdatePassword", arg, ErrLoginBadPassword, <<>>)
                  ELSE IF Len(newPassword) < MinPasswordLen
                  THEN /\ users' = users
                       /\ Returns("UpdatePassword", arg, "service.ErrWeakPassword", <<>>)
                  ELSE /\ users' = {IF u.id = userID
                                    THEN [u EXCEPT !.hash = GenerateFromPassword(newPassword)]
                                    ELSE u : u \in users}
                       /\ Returns("UpdatePassword", arg, "nil", <<>>)

Delete(id) ==
    /\ UNCHANGED <<oauthVars, impl, now, issued, nextID, reg, resetTokens, nextTok>>
    /\ IF FindByID(id) = {}
       THEN /\ users' = users
            /\ Returns("Delete", <<id>>, IF impl = "UserService" THEN "domain.ErrUserNotFound" ELSE "nil", <<>>)
       ELSE /\ users' = {u \in users : u.id # id}
            /\ Returns("Delete", <<id>>, "nil", <<>>)

InitUser ==
    /\ impl \in Impls
    /\ now = MaxTime - MaxDrift
    /\ issued = {}
    /\ users = {}
    /\ nextID = 0
    /\ reg = [p \in Procs |-> Idle]
    /\ resetTokens = {}
    /\ nextTok = 0
    /\ ret = NoCall
    /\ cfg = UnsetConfig
    /\ providers = NewService(UnsetConfig)
    /\ trace = <<>>
    /\ ctx = "live"
    /\ call = NoAdapterCall

NextUser ==
    \/ \E p \in Procs, e \in AnyEmails, pw \in Passwords : RegisterLookup(p, e, pw)
    \/ \E p \in Procs : RegisterCreate(p)
    \/ \E e \in AnyEmails, pw \in Passwords : Login(e, pw)
    \/ \E u \in UserIDs, e \in AnyEmails : UpdateEmail(u, e)
    \/ \E u \in UserIDs, old \in Passwords, new \in Passwords : UpdatePassword(u, old, new)
    \/ \E u \in UserIDs : Delete(u)

SpecUser == InitUser /\ [][NextUser]_vars

----------------------------------------------------------------------------
(* The password-reset-token service (PasswordResetTokenService and         *)
(* DefaultPasswordResetTokenService) over the password_reset_tokens table. *)

MaxTokens == 2

\* the token ids a caller can present; 0 is an id that was never handed out
TokenIDs == 0..MaxTokens

\* the lifetimes the handler can be configured with
\* (Config.PasswordResetTokenExpiration)
TTLs == {TicksPerSecond, TicksPerSecond + 1}

\* the accounts present when the reset-token service is studied
RegisteredUsers ==
    {[id |-> 1, email |-> "alice@example.com", hash |-> GenerateFromPassword("password123")],
     [id |-> 2, email |-> "bob@example.com", hash |-> GenerateFromPassword("hunter2hunter2")]}

\* SELECT ... FROM password_reset_tokens WHERE token = $1: the rows found
Find(token) == {t \in resetTokens : t.token = token}

\* passwordResetToken.CreatedAt.Add(expiration).Before(time.Now())
ExpiredInclusive(row, expiration, t) == row.createdAt + expiration <= t
ExpiredAtCreation(row, expiration, t) == row.createdAt < t
Expired(row, expiration, t) == row.createdAt + expiration < t

\* DELETE FROM password_reset_tokens WHERE created_at < $1: the rows deleted
OlderOrEqual(olderThan) == {t \in resetTokens : t.createdAt <= olderThan}
Older(olderThan) == {t \in resetTokens : t.createdAt < olderThan}

\* GetUserByEmail of the user service: the error when no row is found
ErrGetUserByEmail ==
    IF impl = "UserService" THEN "domain.ErrUserNotFound" ELSE "service.ErrUserNotFound"

\* a variant that does not resolve the user: an unknown email gets a token
\* bound to no user
CreateUnchecked(userEmail) ==
    LET found == FindByEmail(userEmail)
        ids == IF found = {} THEN {0} ELSE {u.id : u \in found}
    IN  /\ UNCHANGED <<oauthVars, impl, now, issued, users, nextID, reg>>
        /\ nextTok < MaxTokens
        /\ \E id \in ids :
             LET row == [token |-> nextTok + 1, userID |-> id, createdAt |-> now]
             IN  /\ resetTokens' = resetTokens \cup {row}
                 /\ nextTok' = nextTok + 1
                 /\ Returns("Create", <<userEmail>>, "nil", row)

\* a variant that keeps one token per user: the new row replaces the rows of
\* the same user
CreateReplacing(userEmail) ==
    LET found == FindByEmail(userEmail)
    IN  /\ UNCHANGED <<oauthVars, impl, now, issued, users, nextID, reg>>
        /\ IF found = {}
           THEN /\ UNCHANGED <<resetTokens, nextTok>>
                /\ Returns("Create", <<userEmail>>, ErrGetUserByEmail, <<>>)
           ELSE /\ nextTok < MaxTokens
                /\ \E user \in found :
                     LET row == [token |-> nextTok + 1, userID |-> user.id, createdAt |-> now]
                     IN  /\ resetTokens' = {t \in resetTokens : t.userID # user.id} \cup {row}
                         /\ nextTok' = nextTok + 1
                         /\ Returns("Create", <<userEmail>>, "nil", row)

Create(userEmail) ==
    LET found == FindByEmail(userEmail)
    IN  /\ UNCHANGED <<oauthVars, impl, now, issued, users, nextID, reg>>
        /\ IF found = {}
           THEN /\ UNCHANGED <<resetTokens, nextTok>>
                /\ Returns("Create", <<userEmail>>, ErrGetUserByEmail, <<>>)
           ELSE /\ nextTok < MaxTokens
                /\ \E user \in found :
                     LET row == [token |-> nextTok + 1, userID |-> user.id, createdAt |-> now]
                     IN  /\ resetTokens' = resetTokens \cup {row}
                         /\ nextTok' = nextTok + 1
                         /\ Returns("Create", <<userEmail>>, "nil", row)

\* a variant that consumes the token it resolves
ReceiveUserIdByTokenOnce(token, expiration) ==
    LET found == Find(token)
        arg == <<token, expiration>>
    IN  /\ UNCHANGED <<oauthVars, impl, now, issued, users, nextID, reg, nextTok>>
        /\ IF found = {}
           THEN /\ UNCHANGED resetTokens
                /\ Returns("ReceiveUserIdByToken", arg, "ErrPasswordResetTokenNotFound", 0)
           ELSE \E row \in found :
                  IF Expired(row, expiration, now)
                  THEN /\ UNCHANGED resetTokens
                       /\ Returns("ReceiveUserIdByToken", arg, "ErrPasswordResetTokenExpired", 0)
                  ELSE /\ resetTokens' = resetTokens \ {row}
                       /\ Returns("ReceiveUserIdByToken", arg, "nil", row.userID)

ReceiveUserIdByToken(token, expiration) ==
    LET found == Find(token)
        arg == <<token, expiration>>
    IN  /\ UNCHANGED <<oauthVars, impl, now, issued, users, nextID, reg, resetTokens, nextTok>>
        /\ IF found = {}
           THEN Returns("ReceiveUserIdByToken", arg, "ErrPasswordResetTokenNotFound", 0)
           ELSE \E row \in found :
                  IF Expired(row, expiration, now)
                  THEN Returns("ReceiveUserIdByToken", arg, "ErrPasswordResetTokenExpired", 0)
                  ELSE Returns("ReceiveUserIdByToken", arg, "nil", row.userID)

ClearFromOld(olderThan) ==
    /\ resetTokens' = resetTokens \ Older(olderThan)
    /\ Returns("ClearFromOld", <<olderThan>>, "nil", <<>>)
    /\ UNCHANGED <<oauthVars, impl, now, issued, users, nextID, reg, nextTok>>

InitReset ==
    /\ impl \in Impls
    /\ now = 0
    /\ issued = {}
    /\ users = RegisteredUsers
    /\ nextID = Cardinality(RegisteredUsers)
    /\ reg = [p \in Procs |-> Idle]
    /\ resetTokens = {}
    /\ nextTok = 0
    /\ ret = NoCall
    /\ cfg = UnsetConfig
    /\ providers = NewService(UnsetConfig)
    /\ trace = <<>>
    /\ ctx = "live"
    /\ call = NoAdapterCall

NextReset ==
    \/ Tick
    \/ \E e \in AnyEmails : Create(e)
    \/ \E tok \in TokenIDs, ttl \in TTLs : ReceiveUserIdByToken(tok, ttl)
    \/ \E c \in 0..MaxTime : ClearFromOld(c)

SpecReset == InitReset /\ [][NextReset]_vars

----------------------------------------------------------------------------
(* Sessions: the user service issuing session tokens (Login, LoginByID)    *)
(* and resolving them (ValidateToken), beside the operations that change   *)
(* the account or the reset tokens while a session token is held.          *)

MaxSessionTokens == 1

\* the account present when sessions are studied, and the passwords tried
SessionUsers ==
    {[id |-> 1, email |-> "alice@example.com", hash |-> GenerateFromPassword("password123")]}
SessionPasswords == {"password123", "hunter2hunter2"}
SessionUserIDs == {u.id : u \in SessionUsers}

\* LoginByID and the service's ValidateToken: the error when no row is found
ErrLoginByIDNoUser ==
    IF impl = "UserService" THEN "service.ErrInvalidCredentials" ELSE "service.ErrUserNotFound"
ErrValidateNoUser ==
    IF impl = "UserService" THEN "domain.ErrUserNotFound" ELSE "service.ErrUserNotFound"

\* LoginByID: the token of GenerateToken(user.ID, user.Email).  The first
\* token handed out is the one kept in issued.
LoginByID(userID) ==
    LET found == FindByID(userID)
    IN  /\ UNCHANGED <<oauthVars, impl, users, nextID, reg, resetTokens, nextTok>>
        /\ IF found = {}
           THEN /\ UNCHANGED <<now, issued>>
                /\ Returns("LoginByID", <<userID>>, ErrLoginByIDNoUser, <<>>)
           ELSE \E user \in found : \E d1, d2 \in 0..MaxDrift :
                  LET t3 == now + d1 + d2
                      tok == SignedString("HS256",
                                 MakeClaims(user.id, user.email, now, now + d1, t3),
                                 ConfigSecret)
                  IN  /\ t3 <= MaxTime
                      /\ now' = t3
                      /\ issued' = IF issued = {}
                                    THEN {[token |-> tok, userID |-> user.id, email |-> user.email,
                                           start |-> now, end |-> t3]}
                                    ELSE issued
                      /\ ReturnsAt("LoginByID", <<userID>>, "nil", tok, t3)

\* a variant of the service's ValidateToken that answers from the claims
\* without reading the users table
ServiceValidateTokenFromClaims(tok) ==
    LET r == ValidateTokenResult(tok, now)
    IN  /\ UNCHANGED <<oauthVars, impl, now, issued, users, nextID, reg, resetTokens, nextTok>>
        /\ IF r.err # "nil"
           THEN Returns("UserService.ValidateToken", tok, r.err, <<>>)
           ELSE Returns("UserService.ValidateToken", tok, "nil",
                        [id |-> r.claims.uid, email |-> r.claims.email,
                         hash |-> GenerateFromPassword("password123")])

\* UserService.ValidateToken / DefaultUserService.ValidateToken
ServiceValidateToken(tok) ==
    LET r == ValidateTokenResult(tok, now)
    IN  /\ UNCHANGED <<oauthVars, impl, now, issued, users, nextID, reg, resetTokens, nextTok>>
        /\ IF r.err # "nil"
           THEN Returns("UserService.ValidateToken", tok, r.err, <<>>)
           ELSE IF FindByID(r.claims.uid) = {}
           THEN Returns("UserService.ValidateToken", tok, ErrValidateNoUser, <<>>)
           ELSE \E user \in FindByID(r.claims.uid) :
                  Returns("UserService.ValidateToken", tok, "nil", user)

InitSession ==
    /\ impl \in Impls
    /\ now = MaxTime - ConfigExpiration - 1
    /\ issued = {}
    /\ users = SessionUsers
    /\ nextID = Cardinality(SessionUsers)
    /\ reg = [p \in Procs |-> Idle]
    /\ resetTokens = {}
    /\ nextTok = 0
    /\ ret = NoCall
    /\ cfg = UnsetConfig
    /\ providers = NewService(UnsetConfig)
    /\ trace = <<>>
    /\ ctx = "live"
    /\ call = NoAdapterCall

NextSession ==
    \/ Tick
    \/ \E u \in SessionUserIDs : LoginByID(u)
    \/ \E e \in Emails, pw \in SessionPasswords : Login(e, pw)
    \/ \E u \in SessionUserIDs, old \in SessionPasswords, new \in SessionPasswords :
         UpdatePassword(u, old, new)
    \/ \E u \in SessionUserIDs, e \in Emails : UpdateEmail(u, e)
    \/ \E u \in SessionUserIDs : Delete(u)
    \/ \E i \in issued : ServiceValidateToken(i.token)
    \/ \E i \in issued : ValidateToken(i.token)
    \/ \E e \in Emails : nextTok < MaxSessionTokens /\ Create(e)
    \/ \E tok \in 1..MaxSessionTokens : ReceiveUserIdByToken(tok, TicksPerSecond)
    \/ ClearFromOld(now)

SpecSession == InitSession /\ [][NextSession]_vars

----------------------------------------------------------------------------
(* The OAuth service (oauth.Service) over its providers map.  The adapters *)
(* talk to the provider's servers: their calls succeed or fail.            *)

\* the provider names, states, codes and tokens a caller can present
ProviderNames == KnownProviders \cup {"facebook", ""}
CallerStates == {"", "caller-state"}
RandomStates == {"random-1", "random-2"}
Codes == {"code-1", "code-2"}
NoURL == <<>>
NoToken == <<>>
NoUserInfo == <<>>

\* fmt.Errorf("oauth provider %s not found", name)
ErrProviderNotFound(name) == "oauth provider " \o name \o " not found"

\* oauth2.Config.AuthCodeURL of the adapter
AuthCodeURL(p, state) ==
    [provider |-> p.name, client_id |-> p.ClientID, redirect_uri |-> p.RedirectURL,
     state |-> state]

\* the token an adapter's Exchange obtains, and the tokens a caller can present
ExchangedToken(p, code) == [provider |-> p.name, AccessToken |-> code]
Tokens == {[provider |-> n, AccessToken |-> c] : n \in KnownProviders, c \in {"code-1"}}

\* the profile an adapter's GetUserInfo obtains
UserInfoOf(p, token) == [provider |-> p.name, ID |-> token.AccessToken]

\* the call of an adapter's method, as recorded in trace
Called(p, method) == p.name \o "." \o method

\* the orders in which ranging over a map with these keys can give them
Orders(keys) ==
    {o \in [1..Cardinality(keys) -> keys] : \A i, j \in DOMAIN o : o[i] = o[j] => i = j}

OAuthReturns(op, arg, err, val, did) ==
    /\ ret' = [op |-> op, err |-> err, arg |-> arg, val |-> val, at |-> now]
    /\ trace' = did
    /\ UNCHANGED <<impl, now, issued, users, nextID, reg, resetTokens, nextTok, cfg, providers,
                   ctx, call>>

GetProvider(name) ==
    IF name \notin DOMAIN providers
    THEN OAuthReturns("GetProvider", <<name>>, ErrProviderNotFound(name), <<>>, <<>>)
    ELSE OAuthReturns("GetProvider", <<name>>, "nil", providers[name], <<>>)

\* a variant that generates the state before it looks the provider up
GetAuthURLStateFirst(provider, state) ==
    LET arg == <<provider, state>>
    IN  \E r \in RandomStates :
          LET did == IF state = "" THEN <<"rand.Read">> ELSE <<>>
              st == IF state = "" THEN r ELSE state
          IN  IF provider \notin DOMAIN providers
              THEN OAuthReturns("GetAuthURL", arg, ErrProviderNotFound(provider), NoURL, did)
              ELSE OAuthReturns("GetAuthURL", arg, "nil", AuthCodeURL(providers[provider], st),
                                Append(did, Called(providers[provider], "GetAuthURL")))

GetAuthURL(provider, state) ==
    LET arg == <<provider, state>>
    IN  IF provider \notin DOMAIN providers
        THEN OAuthReturns("GetAuthURL", arg, ErrProviderNotFound(provider), NoURL, <<>>)
        ELSE LET p == providers[provider]
             IN  IF state = ""
                 THEN \/ OAuthReturns("GetAuthURL", arg, "rand.Read error", NoURL, <<"rand.Read">>)
                      \/ \E r \in RandomStates :
                           OAuthReturns("GetAuthURL", arg, "nil", AuthCodeURL(p, r),
                                        <<"rand.Read", Called(p, "GetAuthURL")>>)
                 ELSE OAuthReturns("GetAuthURL", arg, "nil", AuthCodeURL(p, state),
                                   <<Called(p, "GetAuthURL")>>)

ExchangeCode(provider, code) ==
    LET arg == <<provider, code>>
    IN  IF provider \notin DOMAIN providers
        THEN OAuthReturns("ExchangeCode", arg, ErrProviderNotFound(provider), NoToken, <<>>)
        ELSE LET p == providers[provider]
             IN  \/ OAuthReturns("ExchangeCode", arg, "failed to exchange code", NoToken,
                                 <<Called(p, "Exchange")>>)
                 \/ OAuthReturns("ExchangeCode", arg, "nil", ExchangedToken(p, code),
                                 <<Called(p, "Exchange")>>)

GetUserInfo(provider, token) ==
    LET arg == <<provider, token>>
    IN  IF provider \notin DOMAIN providers
        THEN OAuthReturns("GetUserInfo", arg, ErrProviderNotFound(provider), NoUserInfo, <<>>)
        ELSE LET p == providers[provider]
             IN  \/ OAuthReturns("GetUserInfo", arg, "failed to get user info", NoUserInfo,
                                 <<Called(p, "GetUserInfo")>>)
                 \/ OAuthReturns("GetUserInfo", arg, "nil", UserInfoOf(p, token),
                                 <<Called(p, "GetUserInfo")>>)

GetSupportedProviders ==
    \E o \in Orders(DOMAIN providers) :
        OAuthReturns("GetSupportedProviders", <<>>, "nil", o, <<>>)

InitOAuth ==
    /\ impl = "UserService"
    /\ now = 0
    /\ issued = {}
    /\ users = {}
    /\ nextID = 0
    /\ reg = [p \in Procs |-> Idle]
    /\ resetTokens = {}
    /\ nextTok = 0
    /\ ret = NoCall
    /\ cfg \in Configs
    /\ providers = NewService(cfg)
    /\ trace = <<>>
    /\ ctx = "live"
    /\ call = NoAdapterCall

NextOAuth ==
    \/ \E n \in ProviderNames : GetProvider(n)
    \/ \E n \in ProviderNames, st \in CallerStates : GetAuthURL(n, st)
    \/ \E n \in ProviderNames, c \in Codes : ExchangeCode(n, c)
    \/ \E n \in ProviderNames, t \in Tokens : GetUserInfo(n, t)
    \/ GetSupportedProviders

SpecOAuth == InitOAuth /\ [][NextOAuth]_vars

----------------------------------------------------------------------------
(* The provider adapters (googleProvider, githubProvider, vkProvider): an  *)
(* Exchange or GetUserInfo call runs under the context of its caller and   *)
(* sends its requests one after the other.  trace lists the requests the   *)
(* call has sent.                                                          *)

MaxEmails == 2

\* the answers of GET https://api.github.com/user/emails
GitHubEmails == {"octo@example.com", "cat@example.com"}
EmailEntries == [Email : GitHubEmails, Primary : BOOLEAN, Verified : BOOLEAN]
EmailLists == UNION {[1..n -> EmailEntries] : n \in 0..MaxEmails}

\* a variant of the loop that takes the first entry whatever its marks
PickEmailFirst(emails, i, email) ==
    IF emails = <<>> THEN "" ELSE emails[1].Email

\* the loop of githubProvider.GetUserInfo over emails[i..], email being the
\* choice so far
RECURSIVE PickEmail(_, _, _)
PickEmail(emails, i, email) ==
    IF i > Len(emails) THEN email
    ELSE IF emails[i].Primary /\ emails[i].Verified THEN emails[i].Email
    ELSE PickEmail(emails, i + 1, IF email = "" THEN emails[i].Email ELSE email)

\* the request of an adapter: its URL and the context it is sent under
Request(url, context) == [url |-> url, context |-> context]

AdapterReturns(op, err, val) ==
    /\ ret' = [op |-> op, err |-> err, arg |-> <<call.provider>>, val |-> val, at |-> now]
    /\ call' = [call EXCEPT !.pc = "done"]

\* the caller cancels its context, or its deadline passes
Cancel ==
    /\ ctx = "live"
    /\ ctx' = "done"
    /\ UNCHANGED <<impl, now, issued, users, nextID, reg, resetTokens, nextTok, ret,
                   cfg, providers, trace, call>>

\* a caller calls Exchange or GetUserInfo of an adapter, under a context that
\* is live or already done
CallAdapter(provider, op) ==
    /\ call.pc \in {"idle", "done"}
    /\ ctx' \in {"live", "done"}
    /\ trace' = <<>>
    /\ call' = [pc |-> IF op = "Exchange" THEN "exchange"
                       ELSE IF provider = "github" THEN "emails" ELSE "profile",
                provider |-> provider, op |-> op, listed |-> FALSE, emails |-> <<>>]
    /\ UNCHANGED <<impl, now, issued, users, nextID, reg, resetTokens, nextTok, ret,
                   cfg, providers>>

\* oauth2.Config.Exchange(ctx, code): the token request is sent under ctx
Exchange ==
    /\ call.pc = "exchange"
    /\ IF ctx = "done"
       THEN /\ trace' = trace
            /\ AdapterReturns("Exchange", "context canceled", <<>>)
       ELSE /\ trace' = Append(trace, Request("TokenURL", "ctx"))
            /\ \/ AdapterReturns("Exchange", "oauth2: cannot fetch token", <<>>)
               \/ AdapterReturns("Exchange", "nil", [provider |-> call.provider, AccessToken |-> "at-1"])
    /\ UNCHANGED <<impl, now, issued, users, nextID, reg, resetTokens, nextTok,
                   cfg, providers, ctx>>

\* githubProvider.getUserEmails: the request is built with
\* context.Background()
GetUserEmails ==
    /\ call.pc = "emails"
    /\ trace' = Append(trace, Request("https://api.github.com/user/emails", "background"))
    /\ \/ /\ ret' = [op |-> "GetUserInfo", err |-> "failed to get user emails",
                      arg |-> <<call.provider>>, val |-> <<>>, at |-> now]
          /\ call' = [call EXCEPT !.pc = "done"]
       \/ \E emails \in EmailLists :
            /\ call' = [call EXCEPT !.pc = "profile", !.listed = TRUE, !.emails = emails]
            /\ ret' = ret
    /\ UNCHANGED <<impl, now, issued, users, nextID, reg, resetTokens, nextTok,
                   cfg, providers, ctx>>

\* the URL of the profile request of each adapter
UserInfoURL(provider) ==
    IF provider = "google" THEN "https://www.googleapis.com/oauth2/v2/userinfo"
    ELSE IF provider = "github" THEN "https://api.github.com/user"
    ELSE "https://api.vk.com/method/users.get"

\* the Email of the profile: the choice among the emails for GitHub, the
\* field of the answer for Google, the extra field of the token for VK
UserInfoEmail(provider, emails, answered) ==
    IF provider = "github" THEN PickEmail(emails, 1, "") ELSE answered

\* client.Get / http.Get of the profile: a request without a context of its
\* own, then the profile built from the answer
GetProfile ==
    /\ call.pc = "profile"
    /\ trace' = Append(trace, Request(UserInfoURL(call.provider), "background"))
    /\ \/ AdapterReturns("GetUserInfo", "failed to get user info", <<>>)
       \/ \E answered \in GitHubEmails \cup {""} :
            AdapterReturns("GetUserInfo", "nil",
                [provider |-> call.provider, ID |-> "42",
                 Email |-> UserInfoEmail(call.provider, call.emails, answered)])
    /\ UNCHANGED <<impl, now, issued, users, nextID, reg, resetTokens, nextTok,
                   cfg, providers, ctx>>

InitAdapter ==
    /\ impl = "UserService"
    /\ now = 0
    /\ issued = {}
    /\ users = {}
    /\ nextID = 0
    /\ reg = [p \in Procs |-> Idle]
    /\ resetTokens = {}
    /\ nextTok = 0
    /\ ret = NoCall
    /\ cfg \in {c \in Configs : DOMAIN NewService(c) = KnownProviders}
    /\ providers = NewService(cfg)
    /\ trace = <<>>
    /\ ctx = "live"
    /\ call = NoAdapterCall

NextAdapter ==
    \/ Cancel
    \/ \E n \in KnownProviders, op \in {"Exchange", "GetUserInfo"} : CallAdapter(n, op)
    \/ Exchange
    \/ GetUserEmails
    \/ GetProfile

SpecAdapter == InitAdapter /\ [][NextAdapter]_vars

----------------------------------------------------------------------------
(* The Kafka producer (srProducer.ProduceMessage) and the producer of the  *)
(* forgot-password email over it.  trace lists what the serializer, the    *)
(* enqueueing and the delivery channel answered during the call.           *)

MaxOffset == 2

nullOffset == -1

\* ForgotPasswordEmailSendingTopic of the configuration, and another topic
ForgotPasswordTopic == "forgot-password-email"
Topics == {ForgotPasswordTopic, "other-topic"}

\* the SendEmail message of ProduceForgotPasswordEmail
SendEmailMsg(email, resetPasswordToken) ==
    [To |-> <<email>>, Subject |-> "Forgot Password", Template |-> "forgot-password",
     Params |-> [reset_password_token |-> resetPasswordToken]]

\* what the delivery channel can hand over: the delivery report of the
\* message, delivered at an offset or failed, or an error event
KafkaEvents ==
    {[type |-> "*kafka.Message", Offset |-> o, Error |-> "nil"] : o \in 0..MaxOffset}
    \cup {[type |-> "*kafka.Message", Offset |-> -1001, Error |-> "delivery failed"],
          [type |-> "kafka.Error", Offset |-> -1001, Error |-> "all brokers down"]}

\* what the callee of each step answered
Answered(step, err) == [step |-> step, err |-> err]

\* the switch over the event read from the channel: offset and error.  In
\* the kafka.Error case err is the error of Produce, which is nil there.
ResultOfEvent(ev, err) ==
    IF ev.type = "*kafka.Message" THEN [offset |-> ev.Offset, err |-> "nil"]
    ELSE IF ev.type = "kafka.Error" THEN [offset |-> nullOffset, err |-> err]
    ELSE [offset |-> nullOffset, err |-> "nil"]

\* the body of ProduceMessage, returning under the name op
ProduceAs(op, arg, msg, topic) ==
    /\ \/ /\ trace' = <<Answered("Serialize", "serialization error")>>
          /\ Returns(op, arg, "serialization error", nullOffset)
       \/ /\ trace' = <<Answered("Serialize", "nil"), Answered("Produce", "queue full")>>
          /\ Returns(op, arg, "queue full", nullOffset)
       \/ \E ev \in KafkaEvents :
            /\ trace' = <<Answered("Serialize", "nil"), Answered("Produce", "nil"),
                          Answered("Event", ev.Error)>>
            /\ LET r == ResultOfEvent(ev, "nil")
               IN  Returns(op, arg, r.err, r.offset)
    /\ UNCHANGED <<impl, now, issued, users, nextID, reg, resetTokens, nextTok,
                   cfg, providers, ctx, call>>

ProduceMessage(msg, topic) == ProduceAs("ProduceMessage", <<msg, topic>>, msg, topic)

ProduceForgotPasswordEmail(email, resetPasswordToken) ==
    ProduceAs("ProduceForgotPasswordEmail", <<email, resetPasswordToken>>,
              SendEmailMsg(email, resetPasswordToken), ForgotPasswordTopic)

InitKafka ==
    /\ impl = "UserService"
    /\ now = 0
    /\ issued = {}
    /\ users = {}
    /\ nextID = 0
    /\ reg = [p \in Procs |-> Idle]
    /\ resetTokens = {}
    /\ nextTok = 0
    /\ ret = NoCall
    /\ cfg = UnsetConfig
    /\ providers = NewService(UnsetConfig)
    /\ trace = <<>>
    /\ ctx = "live"
    /\ call = NoAdapterCall

NextKafka ==
    \/ \E e \in AnyEmails, t \in 1..MaxTokens, topic \in Topics :
         ProduceMessage(SendEmailMsg(e, t), topic)
    \/ \E e \in AnyEmails, t \in 1..MaxTokens : ProduceForgotPasswordEmail(e, t)

SpecKafka == InitKafka /\ [][NextKafka]_vars

----------------------------------------------------------------------------
(* The HTTP layer: the handlers of AuthHandler over UserService, the       *)
(* reset-token service and the JWT service, and the two authentication     *)
(* middlewares.  A request is served in one step; ret holds the handler,   *)
(* the request, the error the handler got and the response it wrote.       *)

StatusOK == 200
StatusCreated == 201
StatusNoContent == 204
StatusBadRequest == 400
StatusUnauthorized == 401
StatusNotFound == 404
StatusConflict == 409
StatusInternalServerError == 500

\* the empty string where a token string is expected
EmptyString == [wellFormed |-> FALSE, text |-> ""]

\* http.Error(w, body, status); invoked tells whether a middleware called
\* next.ServeHTTP
Response(status, body) ==
    [status |-> status, body |-> body, token |-> EmptyString, invoked |-> FALSE]

\* respondWithJSON(w, status, &LoginResponse{Token: token, User: user})
LoginResponse(status, token, user) ==
    [status |-> status, body |-> [id |-> user.id, email |-> user.email],
     token |-> token, invoked |-> FALSE]

\* the handler goroutine panicked: net/http recovers the panic and the
\* request gets no response
Panic ==
    [status |-> 0, body |-> "panic: slice bounds out of range",
     token |-> EmptyString, invoked |-> FALSE]

\* the response of the handler that a middleware called
Invoked(resp) == [resp EXCEPT !.invoked = TRUE]

\* handleError: errors.Is against the error values of package domain
handleError(err) ==
    Response(IF err = "domain.ErrUserNotFound" THEN StatusNotFound
             ELSE IF err = "domain.ErrEmailExists" THEN StatusConflict
             ELSE IF err = "domain.ErrInvalidCredentials" THEN StatusUnauthorized
             ELSE IF err = "domain.ErrWeakPassword" THEN StatusBadRequest
             ELSE StatusInternalServerError,
             err)

----------------------------------------------------------------------------
(* The value of the Authorization header: some leading characters and,     *)
(* after them, nothing or the text of a token.  The text of a token is     *)
(* longer than "Bearer ".                                                  *)

BearerPrefix == "Bearer "

\* leading characters: none, the prefix, a shorter word, another word of
\* the length of the prefix
Schemes == {"", BearerPrefix, "Bear", "Token: "}

Header(scheme, token) == [scheme |-> scheme, token |-> token]

\* authHeader == ""
NoHeader == Header("", EmptyString)

\* len(authHeader) >= len("Bearer ")
LongAsPrefix(authHeader) ==
    Len(authHeader.scheme) >= Len(BearerPrefix) \/ authHeader.token # EmptyString

\* authHeader[len("Bearer "):] of a header that is long enough: what follows
\* the first seven characters, a token that lost its first characters when
\* fewer than seven characters lead
SliceFrom(authHeader) ==
    IF authHeader.token = EmptyString THEN EmptyString
    ELSE IF Len(authHeader.scheme) = Len(BearerPrefix) THEN authHeader.token
    ELSE Garble(authHeader.token)

\* strings.TrimPrefix(authHeader, "Bearer "): the header itself when it does
\* not start with the prefix
TrimPrefix(authHeader) ==
    IF authHeader.scheme = BearerPrefix THEN authHeader.token ELSE authHeader

\* the token strings sent in a header: the token handed out, and the same
\* claims signed with another secret
SentTokens(tok) == {tok, Resign(tok, "HS256", "attacker-secret")}

----------------------------------------------------------------------------
(* The calls of the handlers into UserService, as the results they return  *)

\* the error of UserService.Register before it creates the user
RegisterErr(email, password) ==
    IF Len(password) < MinPasswordLen THEN "service.ErrWeakPassword"
    ELSE IF ~ParseAddressOK(email) THEN "service.ErrInvalidEmail"
    ELSE IF FindByEmail(email) # {} THEN "service.ErrEmailExists"
    ELSE "nil"

\* the error of UserService.Login before it generates the token
LoginErr(email, password) ==
    IF FindByEmail(email) = {} THEN "service.ErrInvalidCredentials"
    ELSE IF \E user \in FindByEmail(email) : ~CompareHashAndPassword(user.hash, password)
    THEN "service.ErrInvalidCredentials"
    ELSE "nil"

\* the error of UserService.UpdatePassword
UpdatePasswordErr(userID, oldPassword, newPassword) ==
    IF FindByID(userID) = {} THEN "service.ErrInvalidCredentials"
    ELSE IF \E user \in FindByID(userID) : ~CompareHashAndPassword(user.hash, oldPassword)
    THEN "service.ErrInvalidCredentials"
    ELSE IF Len(newPassword) < MinPasswordLen THEN "service.ErrWeakPassword"
    ELSE "nil"

\* UserService.ValidateToken at time t: the error and the user
UserOfToken(tok, t) ==
    LET r == ValidateTokenResult(tok, t)
    IN  IF r.err # "nil" THEN [err |-> r.err, user |-> <<>>]
        ELSE IF FindByID(r.claims.uid) = {}
        THEN [err |-> "domain.ErrUserNotFound", user |-> <<>>]
        ELSE [err |-> "nil", user |-> CHOOSE u \in FindByID(r.claims.uid) : TRUE]

\* the token handed out first is the one kept in issued
Kept(tok, user, t1, t3) ==
    IF issued = {}
    THEN {[token |-> tok, userID |-> user.id, email |-> user.email, start |-> t1, end |-> t3]}
    ELSE issued

\* the end of a handler that has the user: GenerateToken(user.ID, user.Email)
\* and, where the handler validates the token it got, ValidateToken, then
\* the response
RespondWithSession(op, arg, user, status, validated) ==
    \E d1, d2 \in 0..MaxDrift :
       LET t3 == now + d1 + d2
           tok == SignedString("HS256",
                      MakeClaims(user.id, user.email, now, now + d1, t3), ConfigSecret)
           r == IF validated THEN UserOfToken(tok, t3) ELSE [err |-> "nil", user |-> user]
       IN  /\ t3 <= MaxTime
           /\ now' = t3
           /\ IF r.err # "nil"
              THEN /\ issued' = issued
                   /\ ReturnsAt(op, arg, r.err, handleError(r.err), t3)
              ELSE /\ issued' = Kept(tok, user, now, t3)
                   /\ ReturnsAt(op, arg, "nil", LoginResponse(status, tok, r.user), t3)

----------------------------------------------------------------------------
(* The public handlers *)

handleRegister(email, password) ==
    LET arg == <<email, password>>
        err == RegisterErr(email, password)
        user == [id |-> nextID + 1, email |-> email, hash |-> GenerateFromPassword(password)]
    IN  /\ UNCHANGED <<oauthVars, impl, reg, resetTokens, nextTok>>
        /\ IF err # "nil"
           THEN /\ UNCHANGED <<now, issued, users, nextID>>
                /\ Returns("handleRegister", arg, err, handleError(err))
           ELSE /\ nextID < MaxUsers
                /\ users' = users \cup {user}
                /\ nextID' = nextID + 1
                /\ RespondWithSession("handleRegister", arg, user, StatusCreated, FALSE)

handleLogin(email, password) ==
    LET arg == <<email, password>>
        err == LoginErr(email, password)
    IN  /\ UNCHANGED <<oauthVars, impl, users, nextID, reg, resetTokens, nextTok>>
        /\ IF err # "nil"
           THEN /\ UNCHANGED <<now, issued>>
                /\ Returns("handleLogin", arg, err, handleError(err))
           ELSE \E user \in FindByEmail(email) :
                  RespondWithSession("handleLogin", arg, user, StatusOK, TRUE)

\* the errors ProduceForgotPasswordEmail returns
ProduceErrs == {"nil", "serialization error", "queue full"}

handleForgotPassword(email) ==
    LET found == FindByEmail(email)
    IN  /\ UNCHANGED <<oauthVars, impl, now, issued, users, nextID, reg>>
        /\ IF found = {}
           THEN /\ UNCHANGED <<resetTokens, nextTok>>
                /\ Returns("handleForgotPassword", <<email>>, "domain.ErrUserNotFound",
                           handleError("domain.ErrUserNotFound"))
           ELSE /\ nextTok < MaxSessionTokens
                /\ \E user \in found, err \in ProduceErrs :
                     /\ resetTokens' = resetTokens \cup
                            {[token |-> nextTok + 1, userID |-> user.id, createdAt |-> now]}
                     /\ nextTok' = nextTok + 1
                     /\ Returns("handleForgotPassword", <<email>>, err,
                                IF err # "nil" THEN handleError(err)
                                ELSE Response(StatusOK, ""))

\* h.passwordResetTokenExpiration, of the configuration
passwordResetTokenExpiration == TicksPerSecond

\* the {token} of the path: the ids uuid.Parse accepts, and a text it rejects
NotAUUID == -1
PathTokens == TokenIDs \cup {NotAUUID}

\* a variant that does not look at the age of the reset token
handleReceivePasswordResetTokenOfAnyAge(forgotPasswordToken) ==
    LET arg == <<forgotPasswordToken>>
        op == "handleReceivePasswordResetToken"
        found == Find(forgotPasswordToken)
    IN  /\ UNCHANGED <<oauthVars, impl, users, nextID, reg, resetTokens, nextTok>>
        /\ IF forgotPasswordToken \notin TokenIDs \/ found = {}
           THEN /\ UNCHANGED <<now, issued>>
                /\ Returns(op, arg, "nil", Response(StatusBadRequest, "invalid token"))
           ELSE \E row \in found :
                  IF FindByID(row.userID) = {}
                  THEN /\ UNCHANGED <<now, issued>>
                       /\ Returns(op, arg, "service.ErrInvalidCredentials",
                                  handleError("service.ErrInvalidCredentials"))
                  ELSE \E user \in FindByID(row.userID) :
                         RespondWithSession(op, arg, user, StatusOK, TRUE)

handleReceivePasswordResetToken(forgotPasswordToken) ==
    LET arg == <<forgotPasswordToken>>
        op == "handleReceivePasswordResetToken"
        found == Find(forgotPasswordToken)
    IN  /\ UNCHANGED <<oauthVars, impl, users, nextID, reg, resetTokens, nextTok>>
        /\ IF forgotPasswordToken \notin TokenIDs
           THEN /\ UNCHANGED <<now, issued>>
                /\ Returns(op, arg, "uuid.Parse", Response(StatusBadRequest, "invalid token"))
           ELSE IF found = {}
           THEN /\ UNCHANGED <<now, issued>>
                /\ Returns(op, arg, "ErrPasswordResetTokenNotFound",
                           Response(StatusBadRequest, "invalid token"))
           ELSE \E row \in found :
                  IF Expired(row, passwordResetTokenExpiration, now)
                  THEN /\ UNCHANGED <<now, issued>>
                       /\ Returns(op, arg, "ErrPasswordResetTokenExpired",
                                  Response(StatusBadRequest, "invalid token"))
                  ELSE IF FindByID(row.userID) = {}
                  THEN /\ UNCHANGED <<now, issued>>
                       /\ Returns(op, arg, "service.ErrInvalidCredentials",
                                  handleError("service.ErrInvalidCredentials"))
                  ELSE \E user \in FindByID(row.userID) :
                         RespondWithSession(op, arg, user, StatusOK, TRUE)

----------------------------------------------------------------------------
(* The protected handlers, as the error they get, the response they write  *)
(* and the users table they leave, and the middlewares before them         *)

Handled(err, resp, table) == [err |-> err, resp |-> resp, users |-> table]

handleGetProfile(userID) ==
    IF FindByID(userID) = {}
    THEN Handled("domain.ErrUserNotFound", handleError("domain.ErrUserNotFound"), users)
    ELSE Handled("nil", Response(StatusOK, "user"), users)

handleChangePassword(userID, oldPassword, newPassword) ==
    LET err == UpdatePasswordErr(userID, oldPassword, newPassword)
    IN  IF err # "nil" THEN Handled(err, handleError(err), users)
        ELSE Handled("nil", Response(StatusNoContent, ""),
                     {IF u.id = userID
                      THEN [u EXCEPT !.hash = GenerateFromPassword(newPassword)]
                      ELSE u : u \in users})

\* the requests to the routes under /me: the route and, for a change of
\* password, the passwords of the body
GetMe == [route |-> "GET /me"]
PutPassword(oldPassword, newPassword) ==
    [route |-> "PUT /me/password", old_password |-> oldPassword, new_password |-> newPassword]
ProtectedRequests ==
    {GetMe} \cup {PutPassword(old, new) : old \in SessionPasswords,
                                          new \in {"short", "hunter2hunter2"}}

ServeProtected(req, userID) ==
    IF req.route = "GET /me" THEN handleGetProfile(userID)
    ELSE handleChangePassword(userID, req.old_password, req.new_password)

\* AuthHandler.authMiddleware before the handler of the route
authMiddleware(authHeader, req) ==
    LET arg == <<authHeader, req>>
        op == "authMiddleware"
    IN  /\ UNCHANGED <<oauthVars, impl, now, issued, nextID, reg, resetTokens, nextTok>>
        /\ IF authHeader = NoHeader
           THEN /\ users' = users
                /\ Returns(op, arg, "nil",
                       Response(StatusUnauthorized, "authorization header is required"))
           ELSE IF ~LongAsPrefix(authHeader)
           THEN /\ users' = users
                /\ Returns(op, arg, "nil", Panic)
           ELSE IF SliceFrom(authHeader) = EmptyString
           THEN /\ users' = users
                /\ Returns(op, arg, "nil",
                       Response(StatusUnauthorized, "invalid authorization header format"))
           ELSE LET r == UserOfToken(SliceFrom(authHeader), now)
                    h == ServeProtected(req, r.user.id)
                IN  IF r.err # "nil"
                    THEN /\ users' = users
                         /\ Returns(op, arg, r.err,
                                Response(StatusUnauthorized, "invalid token"))
                    ELSE /\ users' = h.users
                         /\ Returns(op, arg, h.err, Invoked(h.resp))

\* DefaultJWTService.Middleware before some handler, which answers 200
Middleware(authHeader) ==
    LET arg == <<authHeader>>
        op == "Middleware"
        tokenString == TrimPrefix(authHeader)
    IN  /\ UNCHANGED <<oauthVars, impl, now, issued, users, nextID, reg, resetTokens, nextTok>>
        /\ IF authHeader = NoHeader
           THEN Returns(op, arg, "nil",
                    Response(StatusUnauthorized, "authorization header is required"))
           ELSE IF tokenString = authHeader
           THEN Returns(op, arg, "nil",
                    Response(StatusUnauthorized, "invalid authorization header format"))
           ELSE LET r == ValidateTokenResult(tokenString, now)
                IN  IF r.err # "nil"
                    THEN Returns(op, arg, r.err, Response(StatusUnauthorized, "invalid token"))
                    ELSE Returns(op, arg, "nil", Invoked(Response(StatusOK, "next")))

\* the headers a client sends once it holds a token
Headers ==
    {Header(s, t) : s \in Schemes,
                    t \in {EmptyString} \cup UNION {SentTokens(i.token) : i \in issued}}

InitHTTP ==
    /\ impl = "UserService"
    /\ now = MaxTime - ConfigExpiration
    /\ issued = {}
    /\ users = SessionUsers
    /\ nextID = Cardinality(SessionUsers)
    /\ reg = [p \in Procs |-> Idle]
    /\ resetTokens = {}
    /\ nextTok = 0
    /\ ret = NoCall
    /\ cfg = UnsetConfig
    /\ providers = NewService(UnsetConfig)
    /\ trace = <<>>
    /\ ctx = "live"
    /\ call = NoAdapterCall

\* registration, login and the requests behind the middlewares
NextHTTP ==
    \/ Tick
    \/ \E e \in AnyEmails, pw \in {"short", "password123"} : handleRegister(e, pw)
    \/ \E e \in Emails, pw \in SessionPasswords : handleLogin(e, pw)
    \/ \E h \in Headers, req \in ProtectedRequests : authMiddleware(h, req)
    \/ \E h \in Headers : Middleware(h)
    \/ \E u \in SessionUserIDs : Delete(u)

SpecHTTP == InitHTTP /\ [][NextHTTP]_vars

\* the two endpoints of the password reset, while accounts are deleted
NextPasswordReset ==
    \/ Tick
    \/ \E e \in Emails : handleForgotPassword(e)
    \/ \E t \in PathTokens : handleReceivePasswordResetToken(t)
    \/ \E u \in SessionUserIDs : Delete(u)

SpecPasswordReset == InitHTTP /\ [][NextPasswordReset]_vars

----------------------------------------------------------------------------
(* Properties of the JWT service, checked under SpecJWT *)

\* the token handed out by the last GenerateToken was presented unchanged
PresentedIssued(i) == ret.op = "ValidateToken" /\ ret.arg = i.token

\* the presented token carries a MAC computed with the service's secret over
\* exactly its present header and claims, with an HMAC method
CorrectlySigned(tok) ==
    /\ tok.wellFormed
    /\ \E a \in HMACAlgs : tok = SignedString(a, tok.claims, ConfigSecret)

\* the presented token was signed with another secret, or its header names
\* another algorithm than the one it was signed under
ForeignOrAltered(tok) ==
    /\ tok.wellFormed
    /\ \/ tok.sig.key # ConfigSecret
       \/ tok.alg # tok.sig.over.alg

\* C1: ValidateToken of the token that GenerateToken(userID, email) returned,
\* at any time strictly between the issue time and the token's expiresAt,
\* succeeds with claims carrying that userID and that email.
C1_RoundTrip ==
    \A i \in issued :
        (PresentedIssued(i) /\ i.start < ret.at /\ ret.at < i.token.claims.exp)
            => /\ ret.err = "nil"
               /\ ret.val.uid = i.userID
               /\ ret.val.email = i.email

C1_Witness ==
    \E i \in issued :
        /\ PresentedIssued(i) /\ i.start < ret.at /\ ret.at < i.token.claims.exp
        /\ i.start # i.end
        /\ ret.err = "nil"

\* C2: a well-formed token correctly signed with the service's secret whose
\* expiresAt has passed is answered with ErrExpiredToken, never ErrInvalidToken.
C2_ExpiredNotInvalid ==
    (ret.op = "ValidateToken" /\ CorrectlySigned(ret.arg) /\ ret.at > ret.arg.claims.exp)
        => ret.err = "ErrExpiredToken"

C2_Witness ==
    /\ ret.op = "ValidateToken" /\ CorrectlySigned(ret.arg)
    /\ ret.at > ret.arg.claims.exp
    /\ ret.at < ret.arg.claims.nbf
    /\ ret.err = "ErrExpiredToken"

\* C3: a token signed with a different secret, or whose algorithm header was
\* altered, is answered with ErrInvalidToken, never ErrExpiredToken, also
\* when its expiresAt has passed.
C3_ForgedIsInvalid ==
    (ret.op = "ValidateToken" /\ ForeignOrAltered(ret.arg))
        => ret.err = "ErrInvalidToken"

C3_Witness ==
    /\ ret.op = "ValidateToken"
    /\ ret.arg.wellFormed
    /\ ret.arg.sig.key # ConfigSecret
    /\ ret.arg.alg \in HMACAlgs
    /\ ret.at > ret.arg.claims.exp
    /\ ret.err = "ErrInvalidToken"

\* C17 as claimed: ValidateToken accepts a well-formed token correctly signed
\* with the service's secret exactly when notBefore <= now <= expiresAt, the
\* instant now = expiresAt included.
C17_ClosedInterval ==
    (ret.op = "ValidateToken" /\ CorrectlySigned(ret.arg))
        => (ret.err = "nil"
              <=> (ret.arg.claims.nbf <= ret.at /\ ret.at <= ret.arg.claims.exp))

\* C17, amended: ValidateToken accepts a well-formed token correctly signed
\* with the service's secret exactly when notBefore <= now < expiresAt; at
\* the instant now = expiresAt the token is refused as expired.
C17_HalfOpenInterval ==
    (ret.op = "ValidateToken" /\ CorrectlySigned(ret.arg))
        => /\ ret.err = "nil"
                <=> (ret.arg.claims.nbf <= ret.at /\ ret.at < ret.arg.claims.exp)
           /\ ret.at = ret.arg.claims.exp => ret.err = "ErrExpiredToken"
           /\ ret.err = "nil" => ret.val = ret.arg.claims

\* a correctly signed token was presented at the very instant of its
\* expiresAt, its notBefore long passed, and was refused as expired
C17_Witness ==
    /\ ret.op = "ValidateToken" /\ CorrectlySigned(ret.arg)
    /\ ret.at = ret.arg.claims.exp
    /\ ret.arg.claims.nbf < ret.at
    /\ ret.err = "ErrExpiredToken"

\* C18: every token of GenerateToken carries the claims of one issue time t
\* read while the call ran: issuedAt and notBefore are both t and expiresAt
\* is t + the configured expiration, each as the NumericDate of the token
\* holds it, whatever the clock did between the call's clock reads.
C18_OneIssueTime ==
    \A i \in issued :
        \E t \in i.start..i.end :
            /\ i.token.claims.iat = NewNumericDate(t)
            /\ i.token.claims.nbf = NewNumericDate(t)
            /\ i.token.claims.exp = NewNumericDate(t + ConfigExpiration)

----------------------------------------------------------------------------
(* Properties of the user service, checked under SpecUser *)

\* C4: a Login with the pair of an immediately preceding successful Register
\* succeeds, and the claims of its token carry the id and the email of the
\* user that Register created.
C4_RegisterThenLogin ==
    [][(/\ ret.op = "Register" /\ ret.err = "nil"
        /\ ret'.op = "Login" /\ ret'.arg = ret.arg)
          => /\ ret'.err = "nil"
             /\ CorrectlySigned(ret'.val)
             /\ ret'.val.claims.uid = ret.val.id
             /\ ret'.val.claims.email = ret.val.email]_vars

\* a Login succeeded for the user registered last, with the pair it was
\* registered with
C4_Witness ==
    /\ ret.op = "Login" /\ ret.err = "nil"
    /\ ret.val.claims.uid = nextID
    /\ \E u \in users : /\ u.id = nextID
                        /\ u.email = ret.arg[1]
                        /\ u.hash = GenerateFromPassword(ret.arg[2])

\* a failed Login for an email with an account, and a Login for an email
\* without one
FailedLoginWithAccount(r) ==
    r.op = "Login" /\ r.err # "nil" /\ (\E u \in users : u.email = r.arg[1])
LoginWithoutAccount(r) ==
    r.op = "Login" /\ ~(\E u \in users : u.email = r.arg[1])

\* C5: Login with a wrong password for an email that has an account returns
\* the same error as Login for an email that has no account.
C5_SameLoginError ==
    [][(FailedLoginWithAccount(ret) /\ LoginWithoutAccount(ret'))
          => ret'.err = ret.err]_vars

\* the step is the look-up of a Register call whose email has an account
RegisterOfExistingEmail ==
    /\ ret'.op = "Register"
    /\ \E u \in users : u.email = ret'.arg[1]
    /\ \E p \in Procs : RegisterLookup(p, ret'.arg[1], ret'.arg[2])

\* C6 as claimed: every Register with an email that already has an account
\* returns EmailExists and leaves the users table unchanged.
C6_AnyRegisterOfExistingEmail ==
    [][RegisterOfExistingEmail
          => (ret'.err = "service.ErrEmailExists" /\ users' = users)]_vars

\* C6, amended: a Register with a password of at least 8 characters and an
\* email that already has an account returns EmailExists, one with a shorter
\* password returns WeakPassword; in both cases the users table is unchanged.
C6_RegisterOfExistingEmail ==
    [][RegisterOfExistingEmail
          => /\ users' = users
             /\ Len(ret'.arg[2]) >= MinPasswordLen => ret'.err = "service.ErrEmailExists"
             /\ Len(ret'.arg[2]) < MinPasswordLen => ret'.err = "service.ErrWeakPassword"]_vars

C6_Witness ==
    /\ ret.op = "Register" /\ ret.err = "service.ErrEmailExists"
    /\ \E u \in users : u.email = ret.arg[1] /\ u.hash # GenerateFromPassword(ret.arg[2])

\* C7: no two rows of the users table share an email (nor an id), whatever
\* the interleaving of Register and UpdateEmail calls.
C7_EmailUnique ==
    \A u1, u2 \in users : (u1.email = u2.email \/ u1.id = u2.id) => u1 = u2

\* two Register calls for one email were past their look-up together, and
\* the insert of the later one was refused by the table
C7_Witness ==
    /\ ret.op = "Register" /\ ret.err = "pq.unique_violation"
    /\ \E u \in users : u.email = ret.arg[1]
    /\ C7_EmailUnique

\* the step is a call of UpdatePassword
UpdatePasswordStep ==
    /\ ret'.op = "UpdatePassword"
    /\ UpdatePassword(ret'.arg[1], ret'.arg[2], ret'.arg[3])

\* C15: UpdatePassword(userID, oldPassword, newPassword) for an existing user
\* returns InvalidCredentials and leaves the users table unchanged when
\* oldPassword does not match the stored hash; returns WeakPassword and
\* leaves the table unchanged when it matches and newPassword is shorter than
\* 8 characters; and otherwise replaces the hash of that user, and nothing
\* else, by the hash of newPassword.
C15_UpdatePassword ==
    [][UpdatePasswordStep =>
          \A u \in users : u.id = ret'.arg[1] =>
              IF u.hash # GenerateFromPassword(ret'.arg[2])
              THEN ret'.err = "service.ErrInvalidCredentials" /\ users' = users
              ELSE IF Len(ret'.arg[3]) < MinPasswordLen
              THEN ret'.err = "service.ErrWeakPassword" /\ users' = users
              ELSE /\ ret'.err = "nil"
                   /\ users' = (users \ {u})
                          \cup {[u EXCEPT !.hash = GenerateFromPassword(ret'.arg[3])]}]_vars

\* a Login follows a call of UserService.UpdatePassword for the user whose
\* email the Login is given
LoginAfterUpdatePassword ==
    /\ impl = "UserService"
    /\ ret.op = "UpdatePassword"
    /\ ret'.op = "Login"
    /\ \E u \in users : u.id = ret.arg[1] /\ u.email = ret'.arg[1]

\* C29 as claimed: after a successful UpdatePassword(userID, oldPassword,
\* newPassword) with newPassword different from oldPassword, Login with the
\* user's email and oldPassword fails with InvalidCredentials and Login with
\* newPassword succeeds; after a failed UpdatePassword, Login with
\* oldPassword succeeds.
C29_AnyUpdatePasswordThenLogin ==
    [][LoginAfterUpdatePassword =>
          /\ (ret.err = "nil" /\ ret.arg[3] # ret.arg[2])
                => /\ ret'.arg[2] = ret.arg[2] => ret'.err = "service.ErrInvalidCredentials"
                   /\ ret'.arg[2] = ret.arg[3] => ret'.err = "nil"
          /\ (ret.err # "nil" /\ ret'.arg[2] = ret.arg[2]) => ret'.err = "nil"]_vars

\* C29, amended: after a successful UpdatePassword(userID, oldPassword,
\* newPassword) with newPassword different from oldPassword, Login with the
\* user's email and oldPassword fails with InvalidCredentials and Login with
\* newPassword succeeds; after an UpdatePassword that failed with
\* WeakPassword, Login with oldPassword succeeds, and after one that failed
\* with InvalidCredentials, for which oldPassword did not match, Login with
\* oldPassword fails with InvalidCredentials as it did before.
C29_UpdatePasswordThenLogin ==
    [][LoginAfterUpdatePassword =>
          /\ (ret.err = "nil" /\ ret.arg[3] # ret.arg[2])
                => /\ ret'.arg[2] = ret.arg[2] => ret'.err = "service.ErrInvalidCredentials"
                   /\ ret'.arg[2] = ret.arg[3] => ret'.err = "nil"
          /\ (ret.err = "service.ErrWeakPassword" /\ ret'.arg[2] = ret.arg[2])
                => ret'.err = "nil"
          /\ (ret.err = "service.ErrInvalidCredentials" /\ ret'.arg[2] = ret.arg[2])
                => ret'.err = "service.ErrInvalidCredentials"]_vars

\* UserService.UpdatePassword replaced the password of a user by another one
C29_Witness ==
    /\ impl = "UserService"
    /\ ret.op = "UpdatePassword" /\ ret.err = "nil"
    /\ ret.arg[3] # ret.arg[2]
    /\ \E u \in users : u.id = ret.arg[1] /\ u.hash = GenerateFromPassword(ret.arg[3])

\* C16 as claimed: Register returns WeakPassword for every password shorter
\* than 8 characters and InvalidEmail for every syntactically invalid email,
\* and in both cases the users table is unchanged, no id is drawn and no
\* insert is left pending.
C16_AnyInvalidRegister ==
    [][ret'.op = "Register" =>
          /\ Len(ret'.arg[2]) < MinPasswordLen
                => (ret'.err = "service.ErrWeakPassword" /\ users' = users /\ nextID' = nextID)
          /\ ret'.arg[1] \in InvalidEmails
                => (ret'.err = "service.ErrInvalidEmail" /\ users' = users /\ nextID' = nextID)
          /\ \A p \in Procs : reg'[p].pc = "create"
                => /\ reg'[p].email \notin InvalidEmails
                   /\ Len(reg'[p].password) >= MinPasswordLen]_vars

\* C16, amended: Register returns WeakPassword for every password shorter
\* than 8 characters, whatever the email, and InvalidEmail for every
\* syntactically invalid email given with a password of at least 8
\* characters; in both cases the users table is unchanged, no id is drawn
\* and no insert is left pending.
C16_InvalidRegister ==
    [][ret'.op = "Register" =>
          /\ Len(ret'.arg[2]) < MinPasswordLen
                => (ret'.err = "service.ErrWeakPassword" /\ users' = users /\ nextID' = nextID)
          /\ (Len(ret'.arg[2]) >= MinPasswordLen /\ ret'.arg[1] \in InvalidEmails)
                => (ret'.err = "service.ErrInvalidEmail" /\ users' = users /\ nextID' = nextID)
          /\ \A p \in Procs : reg'[p].pc = "create"
                => /\ reg'[p].email \notin InvalidEmails
                   /\ Len(reg'[p].password) >= MinPasswordLen]_vars

\* Register refused an invalid email given with a long enough password,
\* while the table held a user, and no insert is pending
C16_Witness ==
    /\ ret.op = "Register" /\ ret.err = "service.ErrInvalidEmail"
    /\ ret.arg[1] \in InvalidEmails
    /\ Len(ret.arg[2]) >= MinPasswordLen
    /\ users # {}
    /\ \A p \in Procs : reg[p].pc = "idle"

----------------------------------------------------------------------------
(* Properties of the reset-token service, checked under SpecReset *)

\* C8: ReceiveUserIdByToken(token, ttl) returns TokenNotFound when the token
\* is not in the table, TokenExpired exactly when the row has
\* createdAt + ttl < now, and otherwise the user id of the row.  (The call
\* does not write, and every call that writes replaces ret, so the table is
\* still the one the call read.)
C8_ReceiveUserIdByToken ==
    ret.op = "ReceiveUserIdByToken" =>
        LET token == ret.arg[1]
            ttl == ret.arg[2]
            rows == {t \in resetTokens : t.token = token}
        IN  /\ rows = {} <=> ret.err = "ErrPasswordResetTokenNotFound"
            /\ \A row \in rows :
                 /\ row.createdAt + ttl < ret.at <=> ret.err = "ErrPasswordResetTokenExpired"
                 /\ row.createdAt + ttl >= ret.at <=> ret.err = "nil"
                 /\ ret.err = "nil" => ret.val = row.userID
                 /\ row.createdAt = ret.at - (ttl + TicksPerSecond)
                        => ret.err = "ErrPasswordResetTokenExpired"
                 /\ row.createdAt = ret.at - (ttl - TicksPerSecond)
                        => (ret.err = "nil" /\ ret.val = row.userID)

\* a token resolved at the very instant createdAt + ttl, to its user
C8_Witness ==
    /\ ret.op = "ReceiveUserIdByToken"
    /\ ret.err = "nil"
    /\ \E row \in resetTokens :
         /\ row.token = ret.arg[1]
         /\ row.createdAt + ret.arg[2] = ret.at
         /\ row.createdAt < ret.at
         /\ ret.val = row.userID

\* the step is a call of ReceiveUserIdByToken
ReceiveStep ==
    /\ ret'.op = "ReceiveUserIdByToken"
    /\ ReceiveUserIdByToken(ret'.arg[1], ret'.arg[2])

\* C9: ReceiveUserIdByToken writes nothing: the tables are the same after
\* the call; and a token that resolved resolves again to the same user in a
\* following call made while createdAt + ttl has not passed.
C9_ReadOnly ==
    [][/\ ReceiveStep => (resetTokens' = resetTokens /\ users' = users /\ nextTok' = nextTok)
       /\ (/\ ret.op = "ReceiveUserIdByToken" /\ ret.err = "nil"
           /\ ret'.op = "ReceiveUserIdByToken" /\ ret'.arg = ret.arg
           /\ \E row \in resetTokens :
                row.token = ret.arg[1] /\ row.createdAt + ret.arg[2] >= ret'.at)
             => (ret'.err = "nil" /\ ret'.val = ret.val)]_vars

\* a token resolved some time after its creation, and the call left its row in
\* the table
C9_Witness ==
    /\ ret.op = "ReceiveUserIdByToken"
    /\ ret.err = "nil"
    /\ \E row \in resetTokens :
         /\ row.token = ret.arg[1]
         /\ row.userID = ret.val
         /\ row.createdAt < ret.at

\* the step is a call of ClearFromOld
ClearStep ==
    /\ ret'.op = "ClearFromOld"
    /\ ClearFromOld(ret'.arg[1])

\* C10: ClearFromOld(cutoff) removes exactly the rows with createdAt < cutoff:
\* the rows with createdAt >= cutoff are in the table afterwards, unchanged,
\* no row with createdAt < cutoff is, and no row is added.
C10_ClearFromOld ==
    [][ClearStep =>
          LET cutoff == ret'.arg[1]
          IN  /\ \A t \in resetTokens : t.createdAt >= cutoff => t \in resetTokens'
              /\ \A t \in resetTokens' : t.createdAt >= cutoff
              /\ resetTokens' \subseteq resetTokens]_vars

\* after a sweep, a row created exactly at the cutoff is in the table and
\* another row is gone
C10_Witness ==
    /\ ret.op = "ClearFromOld"
    /\ \E t \in resetTokens : t.createdAt = ret.arg[1]
    /\ Cardinality(resetTokens) < nextTok

\* C28: sweep and expiry agree.  At any time now and for every lifetime ttl,
\* ClearFromOld(now - ttl) deletes exactly the rows whose token
\* ReceiveUserIdByToken(token, ttl) reports as expired at that now: a row that
\* would still resolve stays in the table, and no row is left for the token of
\* a deleted row, so that token is not found afterwards.
C28_SweepAgreesWithExpiry ==
    [][\A ttl \in TTLs :
          (ClearStep /\ ret'.arg[1] = now - ttl)
              => /\ resetTokens \ resetTokens' = {t \in resetTokens : Expired(t, ttl, now)}
                 /\ \A t \in resetTokens : ~Expired(t, ttl, now) => t \in resetTokens'
                 /\ \A t \in resetTokens \ resetTokens' :
                      {r \in resetTokens' : r.token = t.token} = {}]_vars

\* a sweep with the cutoff now - ttl removed a row and left the row that was
\* created exactly ttl before
C28_Witness ==
    /\ ret.op = "ClearFromOld"
    /\ \E ttl \in TTLs :
         /\ ret.arg[1] = ret.at - ttl
         /\ \E t \in resetTokens : t.createdAt + ttl = ret.at
    /\ Cardinality(resetTokens) < nextTok

\* the step is a call of the reset-token service's Create
CreateStep ==
    /\ ret'.op = "Create"
    /\ Create(ret'.arg[1])

\* C11: Create(email) with an email that has no account returns UserNotFound
\* and no token, and inserts no row into the reset-token table.
C11_CreateForUnknownEmail ==
    [][(CreateStep /\ ~(\E u \in users : u.email = ret'.arg[1]))
          => /\ ret'.err \in {"domain.ErrUserNotFound", "service.ErrUserNotFound"}
             /\ ret'.val = <<>>
             /\ resetTokens' = resetTokens
             /\ nextTok' = nextTok]_vars

\* Create was refused for an email without an account (Create does not parse
\* the address, it only looks it up) while the table held a token, which is
\* still there
C11_Witness ==
    /\ ret.op = "Create"
    /\ ret.err \in {"domain.ErrUserNotFound", "service.ErrUserNotFound"}
    /\ ret.arg[1] \in AnyEmails
    /\ ~(\E u \in users : u.email = ret.arg[1])
    /\ resetTokens # {}

\* C12: a successful Create(email) inserts exactly one row, whose token was
\* never handed out before and whose user id is the id of the user owning the
\* email, and leaves the rows already in the table in place; every row of the
\* table afterwards is the only one with its token, so each of the tokens of
\* one user resolves to that user.
C12_CreateInsertsOne ==
    [][(CreateStep /\ ret'.err = "nil")
          => \E row \in resetTokens' :
               /\ row \notin resetTokens
               /\ resetTokens' = resetTokens \cup {row}
               /\ row.token > nextTok
               /\ \A t \in resetTokens : t.token # row.token /\ t.token <= nextTok
               /\ \E u \in users : u.email = ret'.arg[1] /\ u.id = row.userID
               /\ ret'.val = row
               /\ \A t \in resetTokens' :
                    {r \in resetTokens' : r.token = t.token} = {t}]_vars

\* Create succeeded for a user who already had a token in the table, and
\* neither of the two has expired under the shortest lifetime
C12_Witness ==
    /\ ret.op = "Create" /\ ret.err = "nil"
    /\ ret.val \in resetTokens
    /\ \E t \in resetTokens :
         /\ t.token # ret.val.token
         /\ t.userID = ret.val.userID
         /\ \A ttl \in TTLs : ~Expired(t, ttl, now) /\ ~Expired(ret.val, ttl, now)

----------------------------------------------------------------------------
(* Properties of sessions, checked under SpecSession *)

\* the step is a call of the user service's ValidateToken
ServiceValidateStep ==
    /\ ret'.op = "UserService.ValidateToken"
    /\ ServiceValidateToken(ret'.arg)

\* C13: the user service's ValidateToken of a correctly signed, unexpired
\* session token fails with UserNotFound when the users table has no row with
\* the id in the claims, and otherwise returns the row the table holds for
\* that id at the time of the call.
C13_ValidateResolvesUser ==
    [][(/\ ServiceValidateStep
        /\ CorrectlySigned(ret'.arg)
        /\ ret'.arg.claims.nbf <= ret'.at
        /\ ret'.at < ret'.arg.claims.exp)
          => LET rows == {u \in users : u.id = ret'.arg.claims.uid}
             IN  /\ rows = {} => /\ ret'.err \in {"domain.ErrUserNotFound",
                                                  "service.ErrUserNotFound"}
                                 /\ ret'.val = <<>>
                 /\ \A u \in rows : ret'.err = "nil" /\ ret'.val = u]_vars

\* an unexpired session token was presented after the record of its user
\* was deleted
C13_Witness ==
    /\ ret.op = "UserService.ValidateToken"
    /\ ret.err \in {"domain.ErrUserNotFound", "service.ErrUserNotFound"}
    /\ \E i \in issued :
         /\ ret.arg = i.token
         /\ ret.at < i.token.claims.exp
         /\ ~(\E u \in users : u.id = i.userID)

\* C14: the JWT ValidateToken accepts a session token handed out earlier at
\* every time before its expiresAt, whatever Login, LoginByID, UpdatePassword,
\* UpdateEmail, Delete and reset-token calls were made since it was issued.
C14_NoRevocation ==
    \A i \in issued :
        (ret.op = "ValidateToken" /\ ret.arg = i.token /\ ret.at < i.token.claims.exp)
            => (ret.err = "nil" /\ ret.val = i.token.claims)

\* the token was accepted after its user's password and email were changed
\* and a reset token was created for that user
C14_Witness ==
    /\ ret.op = "ValidateToken" /\ ret.err = "nil"
    /\ \E i \in issued :
         /\ ret.arg = i.token
         /\ \E u \in users : /\ u.id = i.userID
                             /\ u.email # i.email
                             /\ u.hash # GenerateFromPassword("password123")
         /\ \E t \in resetTokens : t.userID = i.userID

----------------------------------------------------------------------------
(* Properties of the OAuth service, checked under SpecOAuth *)

\* C19: in every state after NewService(cfg) the providers map holds exactly
\* the providers among google, github and vk whose client ID and client
\* secret are both non-empty in cfg, each with the adapter built from its
\* credentials: no call of the service adds, removes or replaces one.
C19_ProvidersFixed ==
    /\ DOMAIN providers =
          {n \in {"google", "github", "vk"} :
              cfg[n].ClientID # "" /\ cfg[n].ClientSecret # ""}
    /\ \A n \in DOMAIN providers :
          /\ providers[n].name = n
          /\ providers[n].ClientID = cfg[n].ClientID
          /\ providers[n].ClientSecret = cfg[n].ClientSecret

\* a call went through to the adapter of a registered provider while
\* another provider has a client ID but no secret, and a third has neither
C19_Witness ==
    /\ ret.op \in {"GetAuthURL", "ExchangeCode", "GetUserInfo"}
    /\ ret.err = "nil"
    /\ trace # <<>>
    /\ ret.arg[1] \in DOMAIN providers
    /\ \E n \in KnownProviders :
         cfg[n].ClientID # "" /\ cfg[n].ClientSecret = "" /\ n \notin DOMAIN providers
    /\ \E n \in KnownProviders : cfg[n].ClientID = "" /\ cfg[n].ClientSecret = ""

\* C20: GetAuthURL, ExchangeCode and GetUserInfo with a provider name that
\* is not registered return the provider-not-found error and no URL, token or
\* profile, without reading a random state and without calling an adapter.
\* (No call changes the providers map, so it is still the one the call read.)
C20_UnregisteredProvider ==
    (/\ ret.op \in {"GetAuthURL", "ExchangeCode", "GetUserInfo"}
     /\ ret.arg[1] \notin DOMAIN providers)
        => /\ ret.err = "oauth provider " \o ret.arg[1] \o " not found"
           /\ ret.val = <<>>
           /\ trace = <<>>

\* GetAuthURL was asked, with an empty state, for a provider that is known
\* but has no client secret configured
C20_Witness ==
    /\ ret.op = "GetAuthURL"
    /\ ret.arg[1] \in KnownProviders \ DOMAIN providers
    /\ ret.arg[2] = ""
    /\ cfg[ret.arg[1]].ClientID # ""
    /\ ret.err = "oauth provider " \o ret.arg[1] \o " not found"
    /\ DOMAIN providers # {}

----------------------------------------------------------------------------
(* Properties of the provider adapters, checked under SpecAdapter *)

\* githubProvider.GetUserInfo has returned, after the email list was received
GitHubReturned ==
    /\ ret.op = "GetUserInfo" /\ ret.arg = <<"github">>
    /\ call.pc = "done" /\ call.provider = "github" /\ call.op = "GetUserInfo"
    /\ call.listed

\* C21: when the email list GitHub returned is empty, githubProvider's
\* GetUserInfo fails with NoEmailAvailable; it returns no profile whose Email
\* is the empty string.
C21_NoEmailAvailable ==
    (GitHubReturned /\ call.emails = <<>>)
        => /\ ret.err \in {"ErrNoEmailAvailable", "failed to get user info"}
           /\ ~(ret.err = "nil" /\ ret.val.Email = "")

C23_BoundToContext ==
    [][(ctx = "done" /\ ctx' = "done" /\ call.pc \notin {"idle", "done"})
          => /\ trace' = trace
             /\ call'.pc = "done" => ret'.err # "nil"]_vars

----------------------------------------------------------------------------
(* Properties of the Kafka producer, checked under SpecKafka *)

\* C24: ProduceMessage, and so ProduceForgotPasswordEmail, returns either a
\* delivery offset with a nil error or a non-nil error: when the
\* serialization, the enqueueing or the delivery of the message failed, the
\* returned error is not nil.
C24_ErrorOrOffset ==
    ret.op \in {"ProduceMessage", "ProduceForgotPasswordEmail"}
        => /\ (\E i \in DOMAIN trace : trace[i].err # "nil") => ret.err # "nil"
           /\ ret.err = "nil" => ret.val >= 0

----------------------------------------------------------------------------
(* Properties of the HTTP layer, checked under SpecHTTP *)

\* the business-rule failures, under the names of both packages
EmailExists == {"service.ErrEmailExists", "domain.ErrEmailExists"}
InvalidCredentials == {"service.ErrInvalidCredentials", "domain.ErrInvalidCredentials"}
WeakPassword == {"service.ErrWeakPassword", "domain.ErrWeakPassword"}
UserNotFound == {"service.ErrUserNotFound", "domain.ErrUserNotFound"}

\* the last request was answered by handleRegister, by handleLogin, or by a
\* protected handler that the middleware called
AnsweredByHandler ==
    \/ ret.op \in {"handleRegister", "handleLogin"}
    \/ ret.op = "authMiddleware" /\ ret.val.invoked

\* C25: every business-rule failure the user service returns is mapped by
\* the handler to its own status and never to 500: EmailExists from Register
\* to 409, InvalidCredentials from Login or UpdatePassword to 401,
\* WeakPassword to 400 and UserNotFound to 404.
C25_BusinessFailureStatus ==
    AnsweredByHandler =>
        /\ (ret.op = "handleRegister" /\ ret.err \in EmailExists)
              => ret.val.status = StatusConflict
        /\ (ret.op \in {"handleLogin", "authMiddleware"} /\ ret.err \in InvalidCredentials)
              => ret.val.status = StatusUnauthorized
        /\ ret.err \in WeakPassword => ret.val.status = StatusBadRequest
        /\ ret.err \in UserNotFound => ret.val.status = StatusNotFound
        /\ ret.err \in EmailExists \cup InvalidCredentials \cup WeakPassword \cup UserNotFound
              => ret.val.status # StatusInternalServerError

\* the step is a request through AuthHandler.authMiddleware, or through the
\* middleware of the JWT service
AuthMiddlewareStep ==
    /\ ret'.op = "authMiddleware"
    /\ authMiddleware(ret'.arg[1], ret'.arg[2])
MiddlewareStep ==
    /\ ret'.op = "Middleware"
    /\ Middleware(ret'.arg[1])

\* the header has the form "Bearer <token>"
BearerToken(authHeader) ==
    authHeader.scheme = BearerPrefix /\ authHeader.token # EmptyString

\* the token is one the JWT service signed, and t lies in its validity
JWTValid(tok, t) ==
    /\ CorrectlySigned(tok)
    /\ tok.claims.nbf <= t
    /\ t < tok.claims.exp

\* C26: an authentication middleware invokes the protected handler if and
\* only if the request carries an Authorization header of the form
\* "Bearer <token>" whose token validates (for AuthHandler.authMiddleware,
\* which validates through the user service, the user of the token exists);
\* every other request is answered with 401 and the handler is not invoked.
C26_BearerOnly ==
    [][/\ AuthMiddlewareStep =>
             LET h == ret'.arg[1]
             IN  /\ ret'.val.invoked
                       <=> /\ BearerToken(h)
                           /\ JWTValid(h.token, now)
                           /\ \E u \in users : u.id = h.token.claims.uid
                 /\ ~ret'.val.invoked
                       => (ret'.val.status = StatusUnauthorized /\ users' = users)
       /\ MiddlewareStep =>
             LET h == ret'.arg[1]
             IN  /\ ret'.val.invoked <=> (BearerToken(h) /\ JWTValid(h.token, now))
                 /\ ~ret'.val.invoked => ret'.val.status = StatusUnauthorized]_vars

\* C27: AuthHandler.authMiddleware never panics: for every value of the
\* Authorization header, the non-empty ones shorter than "Bearer " included,
\* it answers 401 or invokes the next handler.
C27_NoPanic ==
    [][AuthMiddlewareStep =>
          /\ ret'.val # Panic
          /\ ret'.val.status = StatusUnauthorized \/ ret'.val.invoked]_vars

----------------------------------------------------------------------------
(* Properties of the password-reset endpoints, checked under               *)
(* SpecPasswordReset                                                       *)

\* the step is a request to the reset-token endpoint
ReceiveEndpointStep ==
    /\ ret'.op = "handleReceivePasswordResetToken"
    /\ handleReceivePasswordResetToken(ret'.arg[1])

\* C30: the reset-token endpoint issues a session token only for a reset
\* token that is in the store and unexpired, and the session token carries
\* the user id that reset token was created for; a reset token that is not
\* found or expired gets the 400 response "invalid token", the same in both
\* cases, and no session token is issued.
C30_ResetTokenEndpoint ==
    [][ReceiveEndpointStep =>
          LET rows == {t \in resetTokens : t.token = ret'.arg[1]}
              live == {t \in rows : t.createdAt + passwordResetTokenExpiration >= now}
          IN  /\ ret'.val.token # EmptyString
                    => /\ \E row \in live : ret'.val.token.claims.uid = row.userID
                       /\ CorrectlySigned(ret'.val.token)
              /\ issued' # issued => live # {}
              /\ live = {}
                    => /\ ret'.val = Response(StatusBadRequest, "invalid token")
                       /\ issued' = issued]_vars

\* the endpoint answered 200 with a session token for the user of a reset
\* token created some time before
C30_Witness ==
    /\ ret.op = "handleReceivePasswordResetToken"
    /\ ret.val.status = StatusOK
    /\ ret.val.token # EmptyString
    /\ \E row \in resetTokens :
         /\ row.token = ret.arg[1]
         /\ row.userID = ret.val.token.claims.uid
         /\ row.createdAt < ret.at

====
